---- MODULE Spec2Model ----
(***************************************************************************)
(* Model of dependency_viz.py: DirectedGraph.Builder, DirectedGraph        *)
(* (subgraph, reversed_graph, reachable_vertexes), PathItem and the        *)
(* Dependencies facade (mark_files, the two memoized report dictionaries,  *)
(* files_connection, most_used_file).                                      *)
(*                                                                         *)
(* A Python dict is a function whose DOMAIN is the key set; None is the    *)
(* empty sequence and a present value v is <<v>>.  The iteration order of  *)
(* a dict is not fixed by the language: wherever the result can depend on    *)
(* it (the out-edges in _reachable_vertexes, the values() list that        *)
(* _top_files sorts) the order is an input of the operator and the actions *)
(* draw it from all permutations.                                          *)
(***************************************************************************)
EXTENDS Integers, Sequences, FiniteSets, TLC

VARIABLES
    edges,              \* Builder._edges: vertex -> list of <<to_vertex, edge_label>>
    calls,              \* history: the number of calls made on the builder
    added,              \* history: the calls made on the builder so far
    built_from,         \* history: the calls made before the last build_graph
    graph,              \* DirectedGraph._adjacency_matrix / Dependencies._dependency_graph
    marked_files,       \* Dependencies._marked_files
    dependency_dicts,   \* Dependencies._dependency_dicts: <<cell 0, cell 1>>
    marked_when_cached, \* history: marked_files when cell 1 was filled
    op,                 \* the last call made: its name and arguments
    returned,           \* what the last call returned
    link_file_list,     \* the lines of the link file list: the paths of the object files
    nm,                 \* path -> the (defined, undefined) symbols nm -g reports for it
    written,            \* the files opened for writing: filename -> the lines written
    traversal           \* history: what the last reachable_vertexes traversal did

vars == <<edges, calls, added, built_from, graph, marked_files, dependency_dicts,
          marked_when_cached, op, returned, link_file_list, nm, written, traversal>>

builderVars == <<edges, calls, added, built_from>>

dependenciesVars == <<marked_files, dependency_dicts, marked_when_cached>>

diskVars == <<link_file_list, nm, written>>

----------------------------------------------------------------------------
(* Bounds *)

\* SpecGraph: vertexes of the graphs under test and the number of their edges
MaxVertexes == 3
MaxEdges == 5
\* SpecChain: vertexes of the graphs in which every vertex has at most one destination
MaxChainVertexes == 4
\* SpecDependencies: the input files, the edges of the dependency graph and the count
\* asked of most_used_file
MaxFiles == 2
MaxDepEdges == 2
MaxCount == 2
\* SpecBuilder: the number of calls made on one builder
MaxCalls == 4
\* SpecConstruction: the object files of the link file list, the symbols its files
\* define and the symbols they leave undefined (both counted once for each file)
MaxListed == 2
MaxDefined == 2
MaxUndefined == 2

VertexNames == <<"a", "b", "c", "d", "e", "f">>

Vertexes == {VertexNames[i] : i \in 1..MaxVertexes}

ChainVertexes == {VertexNames[i] : i \in 1..MaxChainVertexes}

BuilderVertexes == {"a", "b"}

Files == {VertexNames[i] : i \in 1..MaxFiles}

Labels == {"x", "y"}

----------------------------------------------------------------------------
(* Python values *)

None == <<>>

Some(v) == <<v>>

EmptyDict == [k \in {} |-> {}]

\* d[k] = v
Put(d, k, v) == [y \in DOMAIN d \cup {k} |-> IF y = k THEN v ELSE d[y]]

\* every order in which the elements of S can be iterated
Perms(S) == {s \in [1..Cardinality(S) -> S] : {s[i] : i \in 1..Cardinality(S)} = S}

\* one fixed iteration order of S
RECURSIVE SeqOf(_)
SeqOf(S) ==
    IF S = {} THEN <<>>
    ELSE LET x == CHOOSE y \in S : TRUE IN <<x>> \o SeqOf(S \ {x})

\* the subsets of S with at most k elements
RECURSIVE SubsetsUpTo(_, _)
SubsetsUpTo(S, k) ==
    IF k = 0 \/ S = {} THEN {{}}
    ELSE LET x == CHOOSE y \in S : TRUE
         IN SubsetsUpTo(S \ {x}, k) \cup {T \cup {x} : T \in SubsetsUpTo(S \ {x}, k - 1)}

\* the place of v among the vertex names, 0 for any other vertex
Index(v) ==
    IF \E i \in 1..Len(VertexNames) : VertexNames[i] = v
    THEN CHOOSE i \in 1..Len(VertexNames) : VertexNames[i] = v
    ELSE 0

----------------------------------------------------------------------------
(* DirectedGraph.Builder *)

\* Builder.__init__: self._edges = collections.defaultdict(list)
Builder == EmptyDict

\* self._edges[vertex] of a defaultdict(list)
edges_of(es, vertex) == IF vertex \in DOMAIN es THEN es[vertex] ELSE <<>>

add_vertex_reset(es, vertex) == Put(es, vertex, <<>>)

add_vertex(es, vertex) ==
    IF vertex \notin DOMAIN es THEN Put(es, vertex, <<>>) ELSE es

add_edge_with_label(es, from_vertex, to_vertex, edge_label) ==
    add_vertex(Put(es, from_vertex, Append(edges_of(es, from_vertex), <<to_vertex, edge_label>>)),
               to_vertex)

\* edge_labels is the sequence in which the label set is iterated
RECURSIVE add_edge_with_labels(_, _, _, _)
add_edge_with_labels(es, from_vertex, to_vertex, edge_labels) ==
    IF edge_labels = <<>> THEN es
    ELSE add_edge_with_labels(add_edge_with_label(es, from_vertex, to_vertex, Head(edge_labels)),
                              from_vertex, to_vertex, Tail(edge_labels))

build_graph(es) ==
    [from_vertex \in DOMAIN es |->
        LET destinations == es[from_vertex]
        IN [to_vertex \in {destinations[i][1] : i \in 1..Len(destinations)} |->
               {destinations[i][2] : i \in {j \in 1..Len(destinations) : destinations[j][1] = to_vertex}}]]

----------------------------------------------------------------------------
(* DirectedGraph *)

is_empty(g) == Cardinality(DOMAIN g) = 0

vertexes(g) == DOMAIN g

\* g1 == g2
graph_eq(g1, g2) == g1 = g2

\* subgraph that keeps an edge whenever its source is kept
RECURSIVE subgraph_destinations_unfiltered(_, _, _, _, _)
subgraph_destinations_unfiltered(es, g, from_vertex, tos, sub_vertexes) ==
    IF tos = <<>> THEN es
    ELSE subgraph_destinations_unfiltered(
             add_edge_with_labels(es, from_vertex, Head(tos), SeqOf(g[from_vertex][Head(tos)])),
             g, from_vertex, Tail(tos), sub_vertexes)

\* the inner loop of subgraph (lines 127-129) over the destinations tos[i..]
RECURSIVE subgraph_destinations(_, _, _, _, _)
subgraph_destinations(es, g, from_vertex, tos, sub_vertexes) ==
    IF tos = <<>> THEN es
    ELSE LET to_vertex == Head(tos)
             es1 == IF to_vertex \in sub_vertexes
                    THEN add_edge_with_labels(es, from_vertex, to_vertex,
                                              SeqOf(g[from_vertex][to_vertex]))
                    ELSE es
         IN subgraph_destinations(es1, g, from_vertex, Tail(tos), sub_vertexes)

\* the outer loop of subgraph (lines 123-129) over the vertexes froms[i..]
RECURSIVE subgraph_loop(_, _, _, _)
subgraph_loop(es, g, froms, sub_vertexes) ==
    IF froms = <<>> THEN es
    ELSE LET from_vertex == Head(froms)
             es1 == IF from_vertex \notin sub_vertexes THEN es
                    ELSE subgraph_destinations(add_vertex(es, from_vertex), g, from_vertex,
                                               SeqOf(DOMAIN g[from_vertex]), sub_vertexes)
         IN subgraph_loop(es1, g, Tail(froms), sub_vertexes)

subgraph(g, sub_vertexes) ==
    build_graph(subgraph_loop(Builder, g, SeqOf(DOMAIN g), sub_vertexes))

\* the inner loop of reversed_graph (lines 136-137)
RECURSIVE reversed_destinations(_, _, _, _)
reversed_destinations(es, g, from_vertex, tos) ==
    IF tos = <<>> THEN es
    ELSE reversed_destinations(
             add_edge_with_labels(es, Head(tos), from_vertex, SeqOf(g[from_vertex][Head(tos)])),
             g, from_vertex, Tail(tos))

\* reversed_graph without its add_vertex(from_vertex)
RECURSIVE reversed_loop_edges_only(_, _, _)
reversed_loop_edges_only(es, g, froms) ==
    IF froms = <<>> THEN es
    ELSE reversed_loop_edges_only(
             reversed_destinations(es, g, Head(froms), SeqOf(DOMAIN g[Head(froms)])),
             g, Tail(froms))

\* the outer loop of reversed_graph (lines 134-137)
RECURSIVE reversed_loop(_, _, _)
reversed_loop(es, g, froms) ==
    IF froms = <<>> THEN es
    ELSE reversed_loop(
             reversed_destinations(add_vertex(es, Head(froms)), g, Head(froms),
                                   SeqOf(DOMAIN g[Head(froms)])),
             g, Tail(froms))

reversed_graph(g) == build_graph(reversed_loop(Builder, g, SeqOf(DOMAIN g)))

\* PathItem.__init__
PathItem(vertex, prev_vertex, distance, edge_labels) ==
    [vertex |-> vertex, prev_vertex |-> prev_vertex, distance |-> distance,
     edge_labels |-> edge_labels]

\* the iteration orders of the destination dicts of g: vertex -> sequence of its destinations
RECURSIVE OrdersOver(_, _)
OrdersOver(g, vs) ==
    IF vs = {} THEN {EmptyDict}
    ELSE LET v == CHOOSE y \in vs : TRUE
         IN {Put(o, v, p) : o \in OrdersOver(g, vs \ {v}), p \in Perms(DOMAIN g[v])}

Orders(g) == OrdersOver(g, DOMAIN g)

\* a merge that leaves out what the destination reaches
merge_transitive_dropped(reachable, transitive_reachable) == reachable

\* a merge that keeps the distance counted from the destination
merge_transitive_same_distance(reachable, transitive_reachable) ==
    [reachable_vertex \in DOMAIN reachable \cup DOMAIN transitive_reachable |->
        IF /\ reachable_vertex \in DOMAIN transitive_reachable
           /\ \/ reachable_vertex \notin DOMAIN reachable
              \/ transitive_reachable[reachable_vertex].distance + 1
                     < reachable[reachable_vertex].distance
        THEN transitive_reachable[reachable_vertex]
        ELSE reachable[reachable_vertex]]

\* lines 151-157: merge the reachable set of a destination into that of from_vertex
merge_transitive(reachable, transitive_reachable) ==
    [reachable_vertex \in DOMAIN reachable \cup DOMAIN transitive_reachable |->
        IF /\ reachable_vertex \in DOMAIN transitive_reachable
           /\ \/ reachable_vertex \notin DOMAIN reachable
              \/ transitive_reachable[reachable_vertex].distance + 1
                     < reachable[reachable_vertex].distance
        THEN PathItem(reachable_vertex,
                      transitive_reachable[reachable_vertex].prev_vertex,
                      transitive_reachable[reachable_vertex].distance + 1,
                      transitive_reachable[reachable_vertex].edge_labels)
        ELSE reachable[reachable_vertex]]

\* a traversal that marks a vertex visited where it recurses into it, not on entry, so
\* that the root is never marked
RECURSIVE _reachable_vertexes_unmarked_root(_, _, _, _), reachable_loop_unmarked_root(_, _, _, _, _, _)
_reachable_vertexes_unmarked_root(g, ord, from_vertex, visited) ==
    reachable_loop_unmarked_root(g, ord, from_vertex, 1, EmptyDict, visited)

reachable_loop_unmarked_root(g, ord, from_vertex, i, reachable, visited) ==
    IF i > Len(ord[from_vertex])
    THEN [reachable |-> reachable, visited |-> visited, trace |-> None]
    ELSE LET to_vertex == ord[from_vertex][i]
         IN IF to_vertex \in visited
            THEN reachable_loop_unmarked_root(g, ord, from_vertex, i + 1, reachable, visited)
            ELSE LET transitive == _reachable_vertexes_unmarked_root(g, ord, to_vertex,
                                                                     visited \cup {to_vertex})
                 IN reachable_loop_unmarked_root(g, ord, from_vertex, i + 1,
                        [v \in DOMAIN reachable \cup DOMAIN transitive.reachable \cup {to_vertex} |->
                            IF v \in DOMAIN reachable THEN reachable[v]
                            ELSE IF v = to_vertex
                                 THEN [vertex |-> v, prev_vertex |-> from_vertex, distance |-> 1,
                                       edge_labels |-> g[from_vertex][to_vertex]]
                                 ELSE [transitive.reachable[v] EXCEPT !.distance = @ + 1]],
                        transitive.visited)

\* _reachable_vertexes returns its dict; visited is the set it shares with its callers,
\* so the model returns both.  reachable_loop is the for loop of lines 143-157 from the
\* i-th destination of from_vertex on, in the iteration order ord[from_vertex].
\*
\* trace is a history of the call and of the calls it makes: the vertexes entered, in
\* that order; the pairs <<vertex, the vertex it was entered from>>; the number of path
\* items that came for a key reachable had already (collisions); and the number of
\* entries of reachable that were replaced (overwrites).
RECURSIVE _reachable_vertexes(_, _, _, _), reachable_loop(_, _, _, _, _, _, _)
_reachable_vertexes(g, ord, from_vertex, visited) ==
    reachable_loop(g, ord, from_vertex, 1, EmptyDict, visited \cup {from_vertex},
                   [entered |-> <<from_vertex>>, tree |-> {}, collisions |-> 0,
                    overwrites |-> 0])

\* a loop that hands each destination the visited set as it was before the loop went on
\* to the destinations before it: what one destination visits another does not see
reachable_loop_visited_not_shared(g, ord, from_vertex, i, reachable, visited, trace) ==
    IF i > Len(ord[from_vertex])
    THEN [reachable |-> reachable, visited |-> visited, trace |-> trace]
    ELSE LET to_vertex == ord[from_vertex][i]
             edge_labels == g[from_vertex][to_vertex]
         IN IF to_vertex \in visited
            THEN reachable_loop(g, ord, from_vertex, i + 1, reachable, visited, trace)
            ELSE LET new_path_item == PathItem(to_vertex, from_vertex, 1, edge_labels)
                     reachable1 ==
                         IF \/ to_vertex \notin DOMAIN reachable
                            \/ new_path_item.distance < reachable[to_vertex].distance
                         THEN Put(reachable, to_vertex, new_path_item)
                         ELSE reachable
                     transitive == _reachable_vertexes(g, ord, to_vertex, visited)
                     reachable2 == merge_transitive(reachable1, transitive.reachable)
                 IN reachable_loop(g, ord, from_vertex, i + 1, reachable2, visited,
                        [entered |-> trace.entered \o transitive.trace.entered,
                         tree |-> trace.tree \cup {<<to_vertex, from_vertex>>}
                                      \cup transitive.trace.tree,
                         collisions |->
                             trace.collisions + transitive.trace.collisions
                                 + (IF to_vertex \in DOMAIN reachable THEN 1 ELSE 0)
                                 + Cardinality(DOMAIN reachable1
                                                   \cap DOMAIN transitive.reachable),
                         overwrites |->
                             trace.overwrites + transitive.trace.overwrites
                                 + Cardinality({v \in DOMAIN reachable :
                                                    reachable2[v] # reachable[v]})])

reachable_loop(g, ord, from_vertex, i, reachable, visited, trace) ==
    IF i > Len(ord[from_vertex])
    THEN [reachable |-> reachable, visited |-> visited, trace |-> trace]
    ELSE LET to_vertex == ord[from_vertex][i]
             edge_labels == g[from_vertex][to_vertex]
         IN IF to_vertex \in visited
            THEN reachable_loop(g, ord, from_vertex, i + 1, reachable, visited, trace)
            ELSE LET new_path_item == PathItem(to_vertex, from_vertex, 1, edge_labels)
                     reachable1 ==
                         IF \/ to_vertex \notin DOMAIN reachable
                            \/ new_path_item.distance < reachable[to_vertex].distance
                         THEN Put(reachable, to_vertex, new_path_item)
                         ELSE reachable
                     transitive == _reachable_vertexes(g, ord, to_vertex, visited)
                     reachable2 == merge_transitive(reachable1, transitive.reachable)
                 IN reachable_loop(g, ord, from_vertex, i + 1, reachable2,
                        transitive.visited,
                        [entered |-> trace.entered \o transitive.trace.entered,
                         tree |-> trace.tree \cup {<<to_vertex, from_vertex>>}
                                      \cup transitive.trace.tree,
                         collisions |->
                             trace.collisions + transitive.trace.collisions
                                 + (IF to_vertex \in DOMAIN reachable THEN 1 ELSE 0)
                                 + Cardinality(DOMAIN reachable1
                                                   \cap DOMAIN transitive.reachable),
                         overwrites |->
                             trace.overwrites + transitive.trace.overwrites
                                 + Cardinality({v \in DOMAIN reachable :
                                                    reachable2[v] # reachable[v]})])

reachable_vertexes(g, ord, from_vertex) ==
    _reachable_vertexes(g, ord, from_vertex, {}).reachable

----------------------------------------------------------------------------
(* The graphs under test: what a Builder builds from add_vertex and           *)
(* add_edge_with_labels calls.                                                *)

\* the labels of the edge from_vertex -> to_vertex in the graphs under test: one label
\* of its own and, from a lower to a higher vertex, a label shared by the edges into
\* to_vertex
LabelsOf(from_vertex, to_vertex) ==
    {from_vertex \o "->" \o to_vertex}
        \cup (IF Index(from_vertex) < Index(to_vertex) THEN {"_" \o to_vertex} ELSE {})

RECURSIVE AddEdges(_, _)
AddEdges(es, E) ==
    IF E = <<>> THEN es
    ELSE AddEdges(add_edge_with_labels(es, Head(E)[1], Head(E)[2],
                                       SeqOf(LabelsOf(Head(E)[1], Head(E)[2]))),
                  Tail(E))

RECURSIVE AddVertexes(_, _)
AddVertexes(es, V) ==
    IF V = <<>> THEN es ELSE AddVertexes(add_vertex(es, Head(V)), Tail(V))

BuiltGraph(V, E) == build_graph(AddEdges(AddVertexes(Builder, SeqOf(V)), SeqOf(E)))

\* every graph on a subset of U with at most n edges
BuilderGraphs(U, n) ==
    UNION {{BuiltGraph(V, E) : E \in SubsetsUpTo(V \X V, n)} : V \in SUBSET U}

\* every graph on a subset of U in which each vertex has at most one destination
ChainGraphs(U) ==
    UNION {{BuiltGraph(V, {<<v, to[v]>> : v \in {w \in V : to[w] # ""}}) :
                to \in [V -> V \cup {""}]} : V \in SUBSET U}

NoOp == [name |-> "", vertex |-> "", sub_vertexes |-> {}]

InitGraph ==
    /\ graph \in BuilderGraphs(Vertexes, MaxEdges)
    /\ edges = Builder
    /\ calls = 0
    /\ added = {}
    /\ built_from = {}
    /\ marked_files = {}
    /\ dependency_dicts = <<None, None>>
    /\ marked_when_cached = {}
    /\ op = NoOp
    /\ returned = None
    /\ link_file_list = <<>>
    /\ nm = EmptyDict
    /\ written = EmptyDict
    /\ traversal = None

\* A DirectedGraph is immutable and its methods are pure: a second call on the same
\* graph returns what a first call would, so a run makes one call on the graph drawn.
ReachableVertexes ==
    \E from_vertex \in vertexes(graph), ord \in Orders(graph) :
        /\ op = NoOp
        /\ returned' = reachable_vertexes(graph, ord, from_vertex)
        /\ traversal' = _reachable_vertexes(graph, ord, from_vertex, {}).trace
        /\ op' = [name |-> "reachable_vertexes", vertex |-> from_vertex, sub_vertexes |-> {}]
        /\ UNCHANGED <<builderVars, graph, dependenciesVars, diskVars>>

Subgraph ==
    \E sub_vertexes \in SUBSET Vertexes :
        /\ op = NoOp
        /\ returned' = subgraph(graph, sub_vertexes)
        /\ op' = [name |-> "subgraph", vertex |-> "", sub_vertexes |-> sub_vertexes]
        /\ UNCHANGED <<builderVars, graph, dependenciesVars, diskVars, traversal>>

ReversedGraph ==
    /\ op = NoOp
    /\ returned' = reversed_graph(graph)
    /\ op' = [name |-> "reversed_graph", vertex |-> "", sub_vertexes |-> {}]
    /\ UNCHANGED <<builderVars, graph, dependenciesVars, diskVars, traversal>>

NextGraph == ReachableVertexes \/ Subgraph \/ ReversedGraph

SpecGraph == InitGraph /\ [][NextGraph]_vars

InitChain ==
    /\ graph \in ChainGraphs(ChainVertexes)
    /\ edges = Builder
    /\ calls = 0
    /\ added = {}
    /\ built_from = {}
    /\ marked_files = {}
    /\ dependency_dicts = <<None, None>>
    /\ marked_when_cached = {}
    /\ op = NoOp
    /\ returned = None
    /\ link_file_list = <<>>
    /\ nm = EmptyDict
    /\ written = EmptyDict
    /\ traversal = None

SpecChain == InitChain /\ [][ReachableVertexes]_vars

----------------------------------------------------------------------------
(* short_filename, PathItem.path_from_root, DependencyReport *)

\* A file path is the sequence of its characters; a name that holds neither "/" nor "."
\* may stand as one element.
LastIndexOf(chars, ch) ==
    LET found == {i \in 1..Len(chars) : chars[i] = ch}
    IN IF found = {} THEN 0 ELSE CHOOSE i \in found : \A j \in found : j <= i

RECURSIVE Join(_)
Join(chars) == IF chars = <<>> THEN "" ELSE Head(chars) \o Join(Tail(chars))

\* os.path.split(file_path)[1]: what follows the last "/"
basename(file_path) == SubSeq(file_path, LastIndexOf(file_path, "/") + 1, Len(file_path))

\* os.path.splitext(name)[0]: name up to its last ".", unless only dots come before it
splitext_root(name) ==
    LET dot == LastIndexOf(name, ".")
    IN IF dot = 0 \/ \A i \in 1..dot : name[i] = "." THEN name ELSE SubSeq(name, 1, dot - 1)

short_filename(file_path) == Join(splitext_root(basename(file_path)))

RECURSIVE path_from_root(_, _)
\* a path_from_root that puts the item before the path to its predecessor
path_from_root_prepended(path_item, path_items_dict) ==
    IF path_item.distance = 1 THEN <<path_item>>
    ELSE <<path_item>> \o path_from_root(path_items_dict[path_item.prev_vertex],
                                          path_items_dict)

path_from_root(path_item, path_items_dict) ==
    IF path_item.distance = 1 THEN <<path_item>>
    ELSE Append(path_from_root(path_items_dict[path_item.prev_vertex], path_items_dict),
                path_item)

\* DependencyReport.__init__
DependencyReport(filename, required_dependencies, provided_dependencies) ==
    [filename |-> filename,
     required_dependencies |-> required_dependencies,
     provided_dependencies |-> provided_dependencies]

required_dependencies_count(report) == Cardinality(DOMAIN report.required_dependencies)

provided_dependencies_count(report) == Cardinality(DOMAIN report.provided_dependencies)

\* max(path_items, key=attrgetter("distance")), 0 for no path item
longest_required_distance(report) ==
    LET distances == {report.required_dependencies[v].distance :
                          v \in DOMAIN report.required_dependencies}
    IN IF distances = {} THEN 0 ELSE CHOOSE d \in distances : \A e \in distances : e <= d

\* methodcaller(criteria_method_name)(report)
methodcaller(criteria_method_name, report) ==
    CASE criteria_method_name = "required_dependencies_count" ->
             required_dependencies_count(report)
      [] criteria_method_name = "provided_dependencies_count" ->
             provided_dependencies_count(report)
      [] criteria_method_name = "longest_required_distance" ->
             longest_required_distance(report)

----------------------------------------------------------------------------
(* Dependencies *)

_UNDEFINED_FILE == "<Undefined>"

\* a mark_files that adds the files to those marked before
mark_files_added(files) ==
    marked_files \cup {short_filename(files[i]) : i \in 1..Len(files)} \cup {_UNDEFINED_FILE}

\* mark_files, files being the lines of the link file list
mark_files(files) ==
    {short_filename(files[i]) : i \in 1..Len(files)} \cup {_UNDEFINED_FILE}

\* dict_index = 0 if include_marked_files else 1, as a place in <<cell 0, cell 1>>
dict_index(include_marked_files) == IF include_marked_files THEN 1 ELSE 2

\* lines 313-316 without the subgraph: every file is left
dependency_graph_for_all(g, marked, include_marked_files) == g

\* lines 313-316: the graph the reports are computed on
dependency_graph_for(g, marked, include_marked_files) ==
    IF ~include_marked_files THEN subgraph(g, vertexes(g) \ marked) ELSE g

\* reports whose provided dependencies are computed on the graph itself
dependency_dict_not_reversed(dependency_graph, ord, reversed_ord) ==
    [filename \in vertexes(dependency_graph) |->
        DependencyReport(filename,
                         reachable_vertexes(dependency_graph, ord, filename),
                         reachable_vertexes(dependency_graph, ord, filename))]

\* lines 312 and 317-322: the reports of every vertex of dependency_graph; ord and
\* reversed_ord are the iteration orders of the dicts of the graph and of its reverse
dependency_dict(dependency_graph, ord, reversed_ord) ==
    LET reversed_dependency_graph == reversed_graph(dependency_graph)
    IN [filename \in vertexes(dependency_graph) |->
           DependencyReport(filename,
                            reachable_vertexes(dependency_graph, ord, filename),
                            reachable_vertexes(reversed_dependency_graph, reversed_ord, filename))]

\* an _all_dependencies_dict that computes the reports at every call
_all_dependencies_dict_recomputed(g, marked, dicts, include_marked_files, ord, reversed_ord) ==
    [dicts EXCEPT ![dict_index(include_marked_files)] =
        Some(dependency_dict(dependency_graph_for(g, marked, include_marked_files),
                             ord, reversed_ord))]

\* _all_dependencies_dict: self._dependency_dicts after the call; what the call returns
\* is the content of the cell dict_index(include_marked_files)
_all_dependencies_dict(g, marked, dicts, include_marked_files, ord, reversed_ord) ==
    IF dicts[dict_index(include_marked_files)] = None
    THEN [dicts EXCEPT ![dict_index(include_marked_files)] =
             Some(dependency_dict(dependency_graph_for(g, marked, include_marked_files),
                                  ord, reversed_ord))]
    ELSE dicts

\* The operators below give what a query returns: dicts is self._dependency_dicts after
\* the query's calls of _all_dependencies_dict, which leave a filled cell as it is.

cell(dicts, include_marked_files) == dicts[dict_index(include_marked_files)][1]

\* verbose=True: the mapping; a filename that is no key raises KeyError
required_dependencies(dicts, filename, include_marked_files) ==
    cell(dicts, include_marked_files)[short_filename(filename)].required_dependencies

provided_dependencies(dicts, filename, include_marked_files) ==
    cell(dicts, include_marked_files)[short_filename(filename)].provided_dependencies

\* values() of the cell, values_order being the iteration order of its keys
all_dependencies(dicts, include_marked_files, values_order) ==
    [i \in 1..Len(values_order) |-> cell(dicts, include_marked_files)[values_order[i]]]

\* a files_connection whose second lookup asks for the provided dependencies
files_connection_provided(dicts, file1, file2) ==
    LET direct_dependencies == required_dependencies(dicts, file1, TRUE)
        reverse_dependencies == provided_dependencies(dicts, file2, TRUE)
        result1 == IF short_filename(file2) \in DOMAIN direct_dependencies
                   THEN <<path_from_root(direct_dependencies[short_filename(file2)],
                                         direct_dependencies)>>
                   ELSE <<>>
    IN IF short_filename(file1) \in DOMAIN reverse_dependencies
       THEN Append(result1, path_from_root(reverse_dependencies[short_filename(file1)],
                                           reverse_dependencies))
       ELSE result1

files_connection(dicts, file1, file2) ==
    LET direct_dependencies == required_dependencies(dicts, file1, TRUE)
        reverse_dependencies == required_dependencies(dicts, file2, TRUE)
        result1 == IF short_filename(file2) \in DOMAIN direct_dependencies
                   THEN <<path_from_root(direct_dependencies[short_filename(file2)],
                                         direct_dependencies)>>
                   ELSE <<>>
    IN IF short_filename(file1) \in DOMAIN reverse_dependencies
       THEN Append(result1, path_from_root(reverse_dependencies[short_filename(file1)],
                                           reverse_dependencies))
       ELSE result1

\* list.sort(key=methodcaller(criteria_method_name), reverse=descending): a stable sort.
\* sort_insert puts report behind the reports of sorted that do not come after it.
RECURSIVE sort_insert(_, _, _, _)
sort_insert(sorted, report, criteria_method_name, descending) ==
    IF sorted = <<>> THEN <<report>>
    ELSE LET last == sorted[Len(sorted)]
             after == IF descending
                      THEN methodcaller(criteria_method_name, last)
                               < methodcaller(criteria_method_name, report)
                      ELSE methodcaller(criteria_method_name, report)
                               < methodcaller(criteria_method_name, last)
         IN IF after
            THEN Append(sort_insert(SubSeq(sorted, 1, Len(sorted) - 1), report,
                                    criteria_method_name, descending), last)
            ELSE Append(sorted, report)

RECURSIVE sort(_, _, _)
sort(reports, criteria_method_name, descending) ==
    IF reports = <<>> THEN <<>>
    ELSE sort_insert(sort(SubSeq(reports, 1, Len(reports) - 1), criteria_method_name, descending),
                     reports[Len(reports)], criteria_method_name, descending)

\* result = self.all_dependencies(): include_marked_files is not passed on
_top_files(dicts, criteria_method_name, count, include_marked_files, descending, values_order) ==
    LET result == sort(all_dependencies(dicts, TRUE, values_order),
                       criteria_method_name, descending)
    IN SubSeq(result, 1, IF count < Len(result) THEN count ELSE Len(result))

most_used_file(dicts, count, values_order) ==
    _top_files(dicts, "provided_dependencies_count", count, FALSE, TRUE, values_order)

----------------------------------------------------------------------------
(* One Dependencies instance: mark_files and the queries, in any order.  A query    *)
(* changes the state by filling a cell of _dependency_dicts and by nothing else, and *)
(* it fills the cell before it looks its filename up; what it returns is given by    *)
(* the operator of its name on the state after it.                                   *)

\* the path of an input file
FilePath(file) == <<"d", "/", file, ".", "o">>

\* the file names a query can be asked with
QueryPaths == {FilePath(f) : f \in Files} \cup {<<f>> : f \in Files} \cup {<<_UNDEFINED_FILE>>}

\* the graphs __init__ builds: every input file is a vertex, an edge leads from a file
\* to a file or to _UNDEFINED_FILE
DependencyGraphs ==
    UNION {{BuiltGraph(F, E) : E \in SubsetsUpTo(F \X (F \cup {_UNDEFINED_FILE}), MaxDepEdges)} :
               F \in SUBSET Files}

InitDependencies ==
    /\ graph \in DependencyGraphs
    /\ marked_files = {_UNDEFINED_FILE}
    /\ dependency_dicts = <<None, None>>
    /\ marked_when_cached = {}
    /\ edges = Builder
    /\ calls = 0
    /\ added = {}
    /\ built_from = {}
    /\ op = NoOp
    /\ returned = None
    /\ link_file_list = <<>>
    /\ nm = EmptyDict
    /\ written = EmptyDict
    /\ traversal = None

\* mark_files(link_file_list_filename), files being the lines of that file
MarkFilesCall(files) ==
    /\ marked_files' = mark_files(files)
    /\ UNCHANGED <<builderVars, graph, dependency_dicts, marked_when_cached, op, returned,
                   diskVars, traversal>>

MarkFiles == \E files \in SUBSET {FilePath(f) : f \in Files} : MarkFilesCall(SeqOf(files))

\* self._all_dependencies_dict(include_marked_files), the dicts of the graph it works on
\* and of its reverse being iterated in any order
FillCell(include_marked_files) ==
    /\ LET dependency_graph ==
               dependency_graph_for(graph, marked_files, include_marked_files)
       IN \E ord \in Orders(dependency_graph),
             reversed_ord \in Orders(reversed_graph(dependency_graph)) :
              dependency_dicts' =
                  _all_dependencies_dict(graph, marked_files, dependency_dicts,
                                         include_marked_files, ord, reversed_ord)
    /\ marked_when_cached' =
           IF ~include_marked_files /\ dependency_dicts[2] = None
           THEN marked_files ELSE marked_when_cached
    /\ UNCHANGED <<builderVars, graph, marked_files, op, returned, diskVars, traversal>>

AllDependencies == \E include_marked_files \in BOOLEAN : FillCell(include_marked_files)

RequiredDependencies == \E include_marked_files \in BOOLEAN : FillCell(include_marked_files)

ProvidedDependencies == \E include_marked_files \in BOOLEAN : FillCell(include_marked_files)

\* both lookups of files_connection pass include_marked_files=True
FilesConnection == FillCell(TRUE)

\* _top_files calls self.all_dependencies(), whose include_marked_files is True
MostUsedFile == FillCell(TRUE)

NextDependencies ==
    \/ MarkFiles
    \/ AllDependencies
    \/ RequiredDependencies
    \/ ProvidedDependencies
    \/ FilesConnection
    \/ MostUsedFile

SpecDependencies == InitDependencies /\ [][NextDependencies]_vars

----------------------------------------------------------------------------
(* SymbolTable, readable_symbol_name and Dependencies.__init__ *)

\* A symbol name is the sequence of its parts, a known prefix being one part; two
\* names are the same symbol when their parts are the same.

\* SymbolTable.__init__: self._symbol_to_file_dict = dict()
SymbolTable == EmptyDict

\* a table in which the first file that defines a symbol keeps it
add_defined_symbol_first_wins(symbol_to_file_dict, symbol_name, filename) ==
    IF symbol_name \in DOMAIN symbol_to_file_dict THEN symbol_to_file_dict
    ELSE Put(symbol_to_file_dict, symbol_name, filename)

add_defined_symbol_from_file(symbol_to_file_dict, symbol_name, filename) ==
    Put(symbol_to_file_dict, symbol_name, filename)

\* self._symbol_to_file_dict.get(symbol_name)
file_for_symbol(symbol_to_file_dict, symbol_name) ==
    IF symbol_name \in DOMAIN symbol_to_file_dict
    THEN Some(symbol_to_file_dict[symbol_name]) ELSE None

prefixes == <<"_OBJC_CLASS_$_", "_OBJC_METACLASS_$_">>

\* symbol_name.startswith(prefix)
startswith(symbol_name, prefix) == Len(symbol_name) >= 1 /\ symbol_name[1] = prefix

\* the first prefix the name starts with is stripped, and only that one
readable_symbol_name(symbol_name) ==
    IF \E i \in 1..Len(prefixes) : startswith(symbol_name, prefixes[i])
    THEN Join(Tail(symbol_name))
    ELSE Join(symbol_name)

\* global_symbols(filename): the (defined, undefined) lists nm -g gives for the file
global_symbols(nm_output, filename) == nm_output[filename]

\* lines 261-262: the defined symbols of one file
RECURSIVE defined_loop(_, _, _)
defined_loop(symbol_table, defined, file) ==
    IF defined = <<>> THEN symbol_table
    ELSE defined_loop(add_defined_symbol_from_file(symbol_table, Head(defined), file),
                      Tail(defined), file)

\* lines 259-263: the symbol table and the list undefined_symbols after the first loop
RECURSIVE remember_loop(_, _, _, _)
remember_loop(symbol_table, undefined_symbols, nm_output, files_to_process) ==
    IF files_to_process = <<>>
    THEN [symbol_table |-> symbol_table, undefined_symbols |-> undefined_symbols]
    ELSE LET file == Head(files_to_process)
             symbols == global_symbols(nm_output, file)
         IN remember_loop(defined_loop(symbol_table, symbols.defined, file),
                          Append(undefined_symbols, <<file, symbols.undefined>>),
                          nm_output, Tail(files_to_process))

\* lines 269-272: the edges of the undefined symbols of one file
RECURSIVE undefined_loop(_, _, _, _)
undefined_loop(es, symbol_table, short_file, undefined) ==
    IF undefined = <<>> THEN es
    ELSE LET symbol == Head(undefined)
             found == file_for_symbol(symbol_table, symbol)
             defined_file == IF found # None THEN short_filename(found[1])
                             ELSE _UNDEFINED_FILE
         IN undefined_loop(add_edge_with_label(es, short_file, defined_file,
                                               readable_symbol_name(symbol)),
                           symbol_table, short_file, Tail(undefined))

\* lines 266-272: the builder's edges after the second loop
RECURSIVE dependencies_loop(_, _, _)
dependencies_loop(es, symbol_table, undefined_symbols) ==
    IF undefined_symbols = <<>> THEN es
    ELSE LET short_file == short_filename(Head(undefined_symbols)[1])
         IN dependencies_loop(
                undefined_loop(add_vertex(es, short_file), symbol_table, short_file,
                               Head(undefined_symbols)[2]),
                symbol_table, Tail(undefined_symbols))

\* Dependencies.__init__: the fields of the new instance
Dependencies__init__(files_to_process, nm_output) ==
    LET remembered == remember_loop(SymbolTable, <<>>, nm_output, files_to_process)
    IN [_dependency_graph |->
            build_graph(dependencies_loop(Builder, remembered.symbol_table,
                                          remembered.undefined_symbols)),
        _marked_files |-> {_UNDEFINED_FILE},
        _dependency_dicts |-> <<None, None>>]

----------------------------------------------------------------------------
(* Construction of one Dependencies instance from a link file list *)

\* the object files that can be listed: two of them have the same short name
ObjectFiles ==
    {<<"d", "/", "a", ".", "o">>, <<"d", "/", "b", ".", "o">>, <<"e", "/", "a", ".", "o">>}

\* the symbols of the object files: a class and a metaclass symbol with the same
\* readable name, and a symbol that holds a prefix but does not start with it
Symbols ==
    {<<"_OBJC_CLASS_$_", "X">>, <<"_OBJC_METACLASS_$_", "X">>, <<"_f", "_OBJC_CLASS_$_">>}

\* the lists of at most n different object files, in every order
FileLists(n) ==
    {l \in UNION {[1..k -> ObjectFiles] : k \in 0..n} :
         \A i, j \in 1..Len(l) : i # j => l[i] # l[j]}

\* before the constructor runs: the link file list and what nm gives for its files
InitConstruction ==
    /\ link_file_list \in FileLists(MaxListed)
    /\ LET listed == {link_file_list[i] : i \in 1..Len(link_file_list)}
       IN \E D \in SubsetsUpTo(listed \X Symbols, MaxDefined),
             U \in SubsetsUpTo(listed \X Symbols, MaxUndefined) :
              nm = [file \in listed |->
                       [defined |-> SeqOf({symbol \in Symbols : <<file, symbol>> \in D}),
                        undefined |-> SeqOf({symbol \in Symbols : <<file, symbol>> \in U})]]
    /\ graph = EmptyDict
    /\ marked_files = {}
    /\ dependency_dicts = <<None, None>>
    /\ marked_when_cached = {}
    /\ edges = Builder
    /\ calls = 0
    /\ added = {}
    /\ built_from = {}
    /\ written = EmptyDict
    /\ traversal = None
    /\ op = NoOp
    /\ returned = None

\* Dependencies(link_file_list_filename)
Construct ==
    /\ op = NoOp
    /\ LET self == Dependencies__init__(link_file_list, nm)
       IN /\ graph' = self._dependency_graph
          /\ marked_files' = self._marked_files
          /\ dependency_dicts' = self._dependency_dicts
    /\ op' = [name |-> "__init__", vertex |-> "", sub_vertexes |-> {}]
    /\ UNCHANGED <<builderVars, marked_when_cached, returned, diskVars, traversal>>

SpecConstruction == InitConstruction /\ [][Construct]_vars

----------------------------------------------------------------------------
(* write_dot_file, dump and dump_subgraph *)

\* what a call gives back: None where it returns nothing, the exception where it raises
AssertionError == [raised |-> "AssertionError"]

\* lines 109-114: the lines of the edges of from_vertex, its destinations being iterated
\* in the order tos.  The text " [label='...']" lists the sorted labels, which the model
\* gives by their set; without write_edge_labels the line has no such text.
RECURSIVE write_destinations(_, _, _, _, _)
write_destinations(f, g, from_vertex, tos, write_edge_labels) ==
    IF tos = <<>> THEN f
    ELSE write_destinations(
             Append(f, [text |-> "    " \o from_vertex \o " -> " \o Head(tos),
                        label |-> IF write_edge_labels THEN Some(g[from_vertex][Head(tos)])
                                  ELSE None,
                        end |-> ";\n"]),
             g, from_vertex, Tail(tos), write_edge_labels)

\* lines 108-118: the lines of the vertexes froms, ord giving the order of their
\* destinations
RECURSIVE write_vertexes(_, _, _, _, _)
write_vertexes(f, g, froms, ord, write_edge_labels) ==
    IF froms = <<>> THEN f
    ELSE LET from_vertex == Head(froms)
             f1 == write_destinations(f, g, from_vertex, ord[from_vertex], write_edge_labels)
             f2 == IF Len(ord[from_vertex]) = 0
                   THEN Append(f1, [text |-> "    " \o from_vertex, label |-> None,
                                    end |-> ";\n"])
                   ELSE f1
         IN write_vertexes(f2, g, Tail(froms), ord, write_edge_labels)

\* write_dot_file: the files after the call; open(filename, 'w') makes the file or
\* empties it, and the lines follow.  order is the iteration order of the vertexes.
write_dot_file(g, files, filename, write_edge_labels, order, ord) ==
    Put(files, filename,
        Append(write_vertexes(<<"digraph dependencies {\n">>, g, order, ord, write_edge_labels),
               "}\n"))

\* a dump without its assert
dump_unchecked(g, files, filename, write_edge_labels, order, ord) ==
    [returned |-> None,
     written |-> write_dot_file(g, files, filename, write_edge_labels, order, ord)]

\* dump: what the call gives back and the files after it
dump(g, files, filename, write_edge_labels, order, ord) ==
    IF is_empty(g) THEN [returned |-> AssertionError, written |-> files]
    ELSE [returned |-> None,
          written |-> write_dot_file(g, files, filename, write_edge_labels, order, ord)]

\* dump_subgraph; order and ord are the iteration orders of the dicts of the subgraph
dump_subgraph(g, files, filename, sub_vertexes, write_edge_labels, order, ord) ==
    LET sub == subgraph(g, sub_vertexes)
    IN IF is_empty(sub) THEN [returned |-> AssertionError, written |-> files]
       ELSE [returned |-> None,
             written |-> write_dot_file(sub, files, filename, write_edge_labels, order, ord)]

----------------------------------------------------------------------------
(* One Dependencies instance and the files it dumps *)

\* the file names dumps are written to
Filenames == {"dependency.dot"}

\* the instance after its construction, and the files there are before the call: none,
\* or one with the name of the output file
InitDump ==
    /\ graph \in DependencyGraphs
    /\ marked_files = {_UNDEFINED_FILE}
    /\ dependency_dicts = <<None, None>>
    /\ marked_when_cached = {}
    /\ edges = Builder
    /\ calls = 0
    /\ added = {}
    /\ built_from = {}
    /\ link_file_list = <<>>
    /\ nm = EmptyDict
    /\ written \in {EmptyDict} \cup {Put(EmptyDict, filename, <<"digraph old {\n", "}\n">>) :
                                        filename \in Filenames}
    /\ traversal = None
    /\ op = NoOp
    /\ returned = None

\* A dump reads the graph, which no call changes, and writes the whole file anew: a
\* second call does what a first call on those files would, so a run makes one call.
Dump ==
    \E filename \in Filenames, write_edge_labels \in BOOLEAN,
       order \in Perms(vertexes(graph)), ord \in Orders(graph) :
        LET outcome == dump(graph, written, filename, write_edge_labels, order, ord)
        IN /\ op = NoOp
           /\ written' = outcome.written
           /\ returned' = outcome.returned
           /\ op' = [name |-> "dump", vertex |-> "", sub_vertexes |-> {}]
           /\ UNCHANGED <<builderVars, graph, dependenciesVars, link_file_list, nm, traversal>>

DumpSubgraph ==
    \E filename \in Filenames, write_edge_labels \in BOOLEAN,
       sub_vertexes \in SUBSET (Files \cup {_UNDEFINED_FILE}) :
        \E order \in Perms(vertexes(subgraph(graph, sub_vertexes))),
           ord \in Orders(subgraph(graph, sub_vertexes)) :
            LET outcome == dump_subgraph(graph, written, filename, sub_vertexes,
                                         write_edge_labels, order, ord)
            IN /\ op = NoOp
               /\ written' = outcome.written
               /\ returned' = outcome.returned
               /\ op' = [name |-> "dump_subgraph", vertex |-> "",
                         sub_vertexes |-> sub_vertexes]
               /\ UNCHANGED <<builderVars, graph, dependenciesVars, link_file_list, nm,
                              traversal>>

NextDump == Dump \/ DumpSubgraph

SpecDump == InitDump /\ [][NextDump]_vars

----------------------------------------------------------------------------
(* One Builder: any calls on it, and build_graph at any point between them *)

InitBuilder ==
    /\ edges = Builder
    /\ calls = 0
    /\ added = {}
    /\ built_from = {}
    /\ graph = EmptyDict
    /\ marked_files = {}
    /\ dependency_dicts = <<None, None>>
    /\ marked_when_cached = {}
    /\ op = NoOp
    /\ returned = None
    /\ link_file_list = <<>>
    /\ nm = EmptyDict
    /\ written = EmptyDict
    /\ traversal = None

VertexCall(vertex) == [kind |-> "vertex", from |-> vertex, to |-> vertex, label |-> ""]

EdgeCall(from_vertex, to_vertex, edge_label) ==
    [kind |-> "edge", from |-> from_vertex, to |-> to_vertex, label |-> edge_label]

AddVertex ==
    \E vertex \in BuilderVertexes :
        /\ calls < MaxCalls
        /\ edges' = add_vertex(edges, vertex)
        /\ calls' = calls + 1
        /\ added' = added \cup {VertexCall(vertex)}
        /\ UNCHANGED <<built_from, graph, dependenciesVars, op, returned, diskVars, traversal>>

AddEdgeWithLabel ==
    \E from_vertex \in BuilderVertexes, to_vertex \in BuilderVertexes, edge_label \in Labels :
        /\ calls < MaxCalls
        /\ edges' = add_edge_with_label(edges, from_vertex, to_vertex, edge_label)
        /\ calls' = calls + 1
        /\ added' = added \cup {EdgeCall(from_vertex, to_vertex, edge_label)}
        /\ UNCHANGED <<built_from, graph, dependenciesVars, op, returned, diskVars, traversal>>

\* assert len(edge_labels) > 0: the call is made with a non-empty label set, which it
\* iterates in any order
AddEdgeWithLabels ==
    \E from_vertex \in BuilderVertexes, to_vertex \in BuilderVertexes,
       edge_labels \in SUBSET Labels \ {{}} :
        \E labels_order \in Perms(edge_labels) :
            /\ calls < MaxCalls
            /\ edges' = add_edge_with_labels(edges, from_vertex, to_vertex, labels_order)
            /\ calls' = calls + 1
            /\ added' = added \cup {EdgeCall(from_vertex, to_vertex, l) : l \in edge_labels}
            /\ UNCHANGED <<built_from, graph, dependenciesVars, op, returned, diskVars, traversal>>

BuildGraph ==
    /\ returned' = build_graph(edges)
    /\ built_from' = added
    /\ op' = [name |-> "build_graph", vertex |-> "", sub_vertexes |-> {}]
    /\ UNCHANGED <<edges, calls, added, graph, dependenciesVars, diskVars, traversal>>

NextBuilder == AddVertex \/ AddEdgeWithLabel \/ AddEdgeWithLabels \/ BuildGraph

SpecBuilder == InitBuilder /\ [][NextBuilder]_vars

----------------------------------------------------------------------------
(* Claims about DirectedGraph, under SpecGraph and SpecChain *)

\* the destinations of the vertexes of S
Successors(g, S) == UNION {DOMAIN g[v] : v \in S}

\* S and everything a directed path leads to from S
RECURSIVE Closure(_, _)
Closure(g, S) ==
    IF Successors(g, S) \subseteq S THEN S ELSE Closure(g, S \cup Successors(g, S))

\* the vertexes other than root at the end of a directed path of one or more edges from root
ReachableSet(g, root) == Closure(g, Successors(g, {root})) \ {root}

\* root lies on a cycle (a self-edge included)
OnCycle(g, root) == root \in Closure(g, Successors(g, {root}))

\* C1: the mapping reachable_vertexes(v) returns never has v as a key, whether or not
\* the graph has a self-edge v -> v or a longer cycle through v.
C1_RootNotReachable ==
    op.name = "reachable_vertexes" => op.vertex \notin DOMAIN returned

\* C1 happens: the root has a self-edge, lies on a longer cycle too, and reaches others
C1_Witness ==
    /\ op.name = "reachable_vertexes"
    /\ op.vertex \in DOMAIN graph[op.vertex]
    /\ \E v \in DOMAIN returned : op.vertex \in DOMAIN graph[v]
    /\ Cardinality(DOMAIN returned) >= 2

\* C2: the key set of reachable_vertexes(root) is exactly the set of vertexes other than
\* root that a directed path of one or more edges leads to from root, in whatever order
\* the out-edges of each vertex are iterated.
C2_ExactlyReachable ==
    op.name = "reachable_vertexes" => DOMAIN returned = ReachableSet(graph, op.vertex)

\* C2 happens: the root has two out-edges and lies on a cycle, and a vertex is reached
\* that is not one of its destinations
C2_Witness ==
    /\ op.name = "reachable_vertexes"
    /\ \E v \in DOMAIN returned : v \notin DOMAIN graph[op.vertex]
    /\ Cardinality(DOMAIN graph[op.vertex]) >= 2
    /\ OnCycle(graph, op.vertex)

\* the walk from prev on, prev being its (k-1)-th vertex: C3's expected mapping
RECURSIVE ChainWalk(_, _, _, _, _)
ChainWalk(g, prev, k, seen, acc) ==
    IF DOMAIN g[prev] = {} THEN acc
    ELSE LET v == CHOOSE w \in DOMAIN g[prev] : TRUE
         IN IF v \in seen THEN acc
            ELSE ChainWalk(g, v, k + 1, seen \cup {v},
                           Put(acc, v, [vertex |-> v, prev_vertex |-> prev, distance |-> k,
                                        edge_labels |-> g[prev][v]]))

\* C3: where every vertex has at most one destination, reachable_vertexes(v0) follows the
\* walk v0 -> v1 -> ... until a sink or a visited vertex and maps v_k to the PathItem
\* (v_k, v_(k-1), k, labels of the edge v_(k-1) -> v_k), and holds nothing else.
C3_ChainWalk ==
    (/\ op.name = "reachable_vertexes"
     /\ \A v \in vertexes(graph) : Cardinality(DOMAIN graph[v]) <= 1)
        => returned = ChainWalk(graph, op.vertex, 1, {op.vertex}, EmptyDict)

\* C3 happens: the cycle a -> b -> c -> d -> b from c gives d at 1 via c and b at 2 via d
C3_Witness ==
    /\ op.name = "reachable_vertexes"
    /\ op.vertex = "c"
    /\ vertexes(graph) = {"a", "b", "c", "d"}
    /\ DOMAIN graph["a"] = {"b"} /\ DOMAIN graph["b"] = {"c"}
    /\ DOMAIN graph["c"] = {"d"} /\ DOMAIN graph["d"] = {"b"}
    /\ DOMAIN returned = {"b", "d"}
    /\ returned["d"] = PathItem("d", "c", 1, graph["c"]["d"])
    /\ returned["b"] = PathItem("b", "d", 2, graph["d"]["b"])

\* C4: subgraph(S) has the vertexes S \cap g.vertexes(); it has the edge a -> b with
\* label set L exactly when g has it with label set L and a and b are in S; a kept
\* vertex whose edges were all dropped stays as an isolated vertex.
C4_Subgraph ==
    op.name = "subgraph" =>
        /\ vertexes(returned) = op.sub_vertexes \cap vertexes(graph)
        /\ \A a \in vertexes(returned) :
              /\ DOMAIN returned[a] = DOMAIN graph[a] \cap op.sub_vertexes
              /\ \A b \in DOMAIN returned[a] : returned[a][b] = graph[a][b]

\* C4 happens: S names a vertex the graph has not, and a kept vertex loses all its edges
C4_Witness ==
    /\ op.name = "subgraph"
    /\ ~(op.sub_vertexes \subseteq vertexes(graph))
    /\ \E a \in vertexes(returned) : DOMAIN graph[a] # {} /\ DOMAIN returned[a] = {}

\* C4 happens also where an edge with two labels is kept and another edge is dropped
C4_WitnessKept ==
    /\ op.name = "subgraph"
    /\ \E a \in vertexes(returned) :
          /\ \E b \in DOMAIN returned[a] : Cardinality(returned[a][b]) = 2
          /\ DOMAIN returned[a] # DOMAIN graph[a]

\* C5: reversed_graph() has the vertex set of g and the edge b -> a with label set L
\* exactly when g has a -> b with label set L; reversing twice gives a graph equal to
\* g; a graph without edges equals its reverse.
C5_Reversed ==
    op.name = "reversed_graph" =>
        /\ vertexes(returned) = vertexes(graph)
        /\ \A a, b \in vertexes(graph) :
              /\ a \in DOMAIN returned[b] <=> b \in DOMAIN graph[a]
              /\ b \in DOMAIN graph[a] => returned[b][a] = graph[a][b]
        /\ graph_eq(reversed_graph(returned), graph)
        /\ (\A a \in vertexes(graph) : DOMAIN graph[a] = {}) => graph_eq(returned, graph)

\* C5 happens: the graph has an isolated vertex, a sink and an edge with two labels
C5_Witness ==
    /\ op.name = "reversed_graph"
    /\ \E v \in vertexes(graph) :
          /\ DOMAIN graph[v] = {}
          /\ \A w \in vertexes(graph) : v \notin DOMAIN graph[w]
    /\ \E a \in vertexes(graph) : \E b \in DOMAIN graph[a] :
          /\ DOMAIN graph[b] = {}
          /\ Cardinality(graph[a][b]) = 2
    /\ ~graph_eq(returned, graph)

\* C5 happens also on a graph with vertexes and no edge
C5_WitnessNoEdges ==
    /\ op.name = "reversed_graph"
    /\ vertexes(graph) # {}
    /\ \A a \in vertexes(graph) : DOMAIN graph[a] = {}

\* path_from_root(path_item, path_items_dict) ends within fuel lookups, each of a key
\* that path_items_dict has
RECURSIVE PathEnds(_, _, _)
PathEnds(path_item, path_items_dict, fuel) ==
    \/ path_item.distance = 1
    \/ /\ fuel > 0
       /\ path_item.prev_vertex \in DOMAIN path_items_dict
       /\ PathEnds(path_items_dict[path_item.prev_vertex], path_items_dict, fuel - 1)

\* C14: for every PathItem p of R = reachable_vertexes(root), p.path_from_root(R) ends
\* without a missing key and returns a list of exactly p.distance items: the i-th item
\* has distance i, the first has prev_vertex = root, each later item's prev_vertex is the
\* vertex of the item before it, the last item is p, and every item (x, prev, d, L) is an
\* edge prev -> x of the graph with label set L.
C14_PathFromRoot ==
    op.name = "reachable_vertexes" =>
        \A v \in DOMAIN returned :
            /\ PathEnds(returned[v], returned, Cardinality(DOMAIN returned))
            /\ LET path == path_from_root(returned[v], returned)
               IN /\ Len(path) = returned[v].distance
                  /\ \A i \in 1..Len(path) : path[i].distance = i
                  /\ path[1].prev_vertex = op.vertex
                  /\ \A i \in 2..Len(path) : path[i].prev_vertex = path[i - 1].vertex
                  /\ path[Len(path)] = returned[v]
                  /\ \A i \in 1..Len(path) :
                        /\ path[i].vertex \in DOMAIN graph[path[i].prev_vertex]
                        /\ path[i].edge_labels = graph[path[i].prev_vertex][path[i].vertex]

\* C14 happens: the root lies on a cycle and has an edge to a vertex whose recorded path
\* has two items, the first of them being the item of another destination of the root
C14_Witness ==
    /\ op.name = "reachable_vertexes"
    /\ OnCycle(graph, op.vertex)
    /\ \E v \in DOMAIN returned :
          /\ v \in DOMAIN graph[op.vertex]
          /\ Len(path_from_root(returned[v], returned)) = 2
          /\ path_from_root(returned[v], returned)[1] = returned[returned[v].prev_vertex]

\* the number of edges of a shortest directed path to v from the vertexes of frontier,
\* which are k edges from the root; v is reachable from them
RECURSIVE Hops(_, _, _, _, _)
Hops(g, frontier, seen, v, k) ==
    IF v \in frontier THEN k
    ELSE Hops(g, Successors(g, frontier) \ seen, seen \cup Successors(g, frontier), v, k + 1)

\* the number of edges between root and v in the tree of the pairs <<vertex, vertex it
\* was entered from>>
RECURSIVE Depth(_, _, _)
Depth(tree, root, v) ==
    IF v = root THEN 0
    ELSE 1 + Depth(tree, root, (CHOOSE pair \in tree : pair[1] = v)[2])

\* C15: during one reachable_vertexes(root) traversal each vertex is entered at most
\* once and gets at most one candidate PathItem at every recursion level, so that no
\* entry is ever replaced; the recorded distance of a vertex is its depth in the tree
\* of the traversal, which is never smaller than the number of edges of a shortest path
\* from root (and is greater for some graphs and orders: C15_Witness).
C15_DepthFirstDistances ==
    op.name = "reachable_vertexes" =>
        /\ \A i, j \in 1..Len(traversal.entered) :
              i # j => traversal.entered[i] # traversal.entered[j]
        /\ traversal.collisions = 0
        /\ traversal.overwrites = 0
        /\ \A v \in DOMAIN returned :
              /\ Cardinality({pair \in traversal.tree : pair[1] = v}) = 1
              /\ returned[v].distance = Depth(traversal.tree, op.vertex, v)
              /\ returned[v].distance
                     >= Hops(graph, Successors(graph, {op.vertex}), {}, v, 1)

\* C15 happens: with the edges a -> b, b -> c and a -> c and b entered before c, c is
\* recorded at distance 2 though an edge leads to it from the root
C15_Witness ==
    /\ op.name = "reachable_vertexes"
    /\ op.vertex = "a"
    /\ vertexes(graph) = {"a", "b", "c"}
    /\ DOMAIN graph["a"] = {"b", "c"}
    /\ DOMAIN graph["b"] = {"c"}
    /\ DOMAIN graph["c"] = {}
    /\ traversal.entered = <<"a", "b", "c">>
    /\ returned["c"].distance = 2
    /\ Hops(graph, Successors(graph, {"a"}), {}, "c", 1) = 1

\* C15 happens also with the other order: c is entered from the root and recorded at 1
C15_WitnessShortest ==
    /\ op.name = "reachable_vertexes"
    /\ op.vertex = "a"
    /\ vertexes(graph) = {"a", "b", "c"}
    /\ DOMAIN graph["a"] = {"b", "c"}
    /\ DOMAIN graph["b"] = {"c"}
    /\ DOMAIN graph["c"] = {}
    /\ traversal.entered = <<"a", "c", "b">>
    /\ returned["c"].distance = 1

----------------------------------------------------------------------------
(* Claims about DirectedGraph.Builder, under SpecBuilder *)

\* the labels added for the pair (from_vertex, to_vertex) by the calls C
LabelsAdded(C, from_vertex, to_vertex) ==
    {c.label : c \in {e \in C : e.kind = "edge" /\ e.from = from_vertex /\ e.to = to_vertex}}

\* C6: build_graph() returns a graph whose vertexes are exactly those passed to add_vertex
\* or used as the source or destination of an added edge, and whose label set for each
\* pair is exactly the set of labels added for it.  The graph is a function of the set of
\* calls made before it was built: their order does not count, and calls made after it
\* do not change it.
C6_BuiltGraph ==
    op.name = "build_graph" =>
        /\ vertexes(returned) = {c.from : c \in built_from} \cup {c.to : c \in built_from}
        /\ \A from_vertex \in vertexes(returned) :
              /\ DOMAIN returned[from_vertex] =
                     {to_vertex \in BuilderVertexes :
                          LabelsAdded(built_from, from_vertex, to_vertex) # {}}
              /\ \A to_vertex \in DOMAIN returned[from_vertex] :
                     returned[from_vertex][to_vertex]
                         = LabelsAdded(built_from, from_vertex, to_vertex)

\* C6 happens: a pair was added more often than it has labels, its two labels are one
\* edge of the built graph, its destination was never passed to add_vertex, and the
\* builder was called again after the graph was built
C6_Witness ==
    /\ op.name = "build_graph"
    /\ added # built_from
    /\ \E from_vertex \in vertexes(returned) : \E to_vertex \in DOMAIN returned[from_vertex] :
          /\ Cardinality(returned[from_vertex][to_vertex]) = 2
          /\ Len(edges[from_vertex]) > 2
          /\ to_vertex # from_vertex
          /\ DOMAIN returned[to_vertex] = {}
          /\ VertexCall(to_vertex) \notin built_from

----------------------------------------------------------------------------
(* Claims about Dependencies, under SpecDependencies *)

\* the file names with which a query on the cell of include_marked_files finds a report
Known(include_marked_files) ==
    {p \in QueryPaths : short_filename(p) \in DOMAIN cell(dependency_dicts, include_marked_files)}

\* the files with a report in all_dependencies(include_marked_files)
Reported(include_marked_files) ==
    LET reports == all_dependencies(dependency_dicts, include_marked_files,
                                    SeqOf(DOMAIN cell(dependency_dicts, include_marked_files)))
    IN {reports[i].filename : i \in 1..Len(reports)}

\* with include_marked_files=False no query returns a vertex of marked
ExcludesMarked(marked) ==
    dependency_dicts[2] # None =>
        /\ \A p \in Known(FALSE) :
              /\ DOMAIN required_dependencies(dependency_dicts, p, FALSE) \cap marked = {}
              /\ DOMAIN provided_dependencies(dependency_dicts, p, FALSE) \cap marked = {}
        /\ Reported(FALSE) \cap marked = {}

\* C7 as stated: required_dependencies(f, include_marked_files=False) and
\* provided_dependencies(f, include_marked_files=False) contain no vertex that is in
\* marked_files() at the time of the query, and all_dependencies(include_marked_files=
\* False) holds no report for a file marked at that time.
C7_ExcludesMarkedAtQuery == ExcludesMarked(marked_files)

\* C7 as amended: they contain no vertex that was in marked_files() when the first query
\* with include_marked_files=False filled the cache (the undefined sentinel is always
\* among these), and all_dependencies(include_marked_files=False) holds no report for a
\* file marked then.
C7_ExcludesMarkedWhenCached ==
    /\ ExcludesMarked(marked_when_cached)
    /\ dependency_dicts[2] # None => _UNDEFINED_FILE \in marked_when_cached

\* C7 happens: the cache was filled while a vertex with an edge into it from a file left
\* was marked, a file left has a required and a file left has a provided dependency, and
\* mark_files has changed the marked files afterwards
C7_Witness ==
    /\ dependency_dicts[2] # None
    /\ marked_files # marked_when_cached
    /\ \E f \in marked_when_cached :
          \E v \in vertexes(graph) \ marked_when_cached : f \in DOMAIN graph[v]
    /\ \E p \in Known(FALSE) : DOMAIN required_dependencies(dependency_dicts, p, FALSE) # {}
    /\ \E p \in Known(FALSE) : DOMAIN provided_dependencies(dependency_dicts, p, FALSE) # {}

\* C7 happens also with a file marked when the cache was filled
C7_WitnessFile ==
    /\ dependency_dicts[2] # None
    /\ \E f \in marked_when_cached \ {_UNDEFINED_FILE} :
          \E v \in vertexes(graph) \ marked_when_cached : f \in DOMAIN graph[v]

\* the orders in which values() can list the reports of cell 0
ValuesOrders == Perms(DOMAIN cell(dependency_dicts, TRUE))

\* C8: most_used_file(count) returns no report of a marked file or of the undefined
\* sentinel and counts no marked file as a provider (it ranks the reports of
\* all_dependencies(include_marked_files=False)); the list is sorted by
\* provided_dependencies_count in descending order and has at most count entries.
C8_MostUsedExcludesMarked ==
    dependency_dicts[1] # None =>
        \A count \in 0..MaxCount : \A values_order \in ValuesOrders :
            LET top == most_used_file(dependency_dicts, count, values_order)
            IN /\ Len(top) <= count
               /\ \A i \in 1..Len(top) :
                     /\ top[i].filename \notin marked_files
                     /\ DOMAIN top[i].provided_dependencies \cap marked_files = {}
               /\ \A i \in 1..(Len(top) - 1) :
                     provided_dependencies_count(top[i])
                         >= provided_dependencies_count(top[i + 1])

\* C9: a cell of _dependency_dicts that holds reports keeps them in every step
\* (mark_files included), a step fills at most one cell, and no call with a flag value
\* leaves the cell of that flag value empty.
C9_CellsFilledOnce ==
    [][/\ \A i \in {1, 2} :
             /\ dependency_dicts[i] # None => dependency_dicts'[i] = dependency_dicts[i]
             /\ dependency_dicts'[i] # dependency_dicts[i]
                    => dependency_dicts'[3 - i] = dependency_dicts[3 - i]
       /\ \A include_marked_files \in BOOLEAN :
             dependency_dicts'[dict_index(include_marked_files)] = None
                 => ~FillCell(include_marked_files)]_vars

\* C9 happens: both cells are filled, and mark_files has changed the marked files since
\* the cell of include_marked_files=False was filled with a file left out
C9_Witness ==
    /\ dependency_dicts[1] # None
    /\ dependency_dicts[2] # None
    /\ marked_files # marked_when_cached
    /\ DOMAIN cell(dependency_dicts, FALSE) # DOMAIN cell(dependency_dicts, TRUE) \ marked_files

\* items is a chain of PathItems from source to target along edges of g
IsPath(g, items, source, target) ==
    /\ Len(items) >= 1
    /\ items[1].prev_vertex = source
    /\ items[Len(items)].vertex = target
    /\ \A i \in 2..Len(items) : items[i].prev_vertex = items[i - 1].vertex
    /\ \A i \in 1..Len(items) :
          /\ items[i].vertex \in DOMAIN g[items[i].prev_vertex]
          /\ items[i].edge_labels = g[items[i].prev_vertex][items[i].vertex]

C10_WitnessBoth ==
    /\ dependency_dicts[1] # None
    /\ \E file1, file2 \in Known(TRUE) :
          Len(files_connection(dependency_dicts, file1, file2)) = 2

\* C10 happens also with a path of two edges
C10_WitnessTwoEdges ==
    /\ dependency_dicts[1] # None
    /\ \E file1, file2 \in Known(TRUE) :
          LET paths == files_connection(dependency_dicts, file1, file2)
          IN Len(paths) = 1 /\ Len(paths[1]) = 2

\* C12: marked_files() contains the undefined sentinel in every reachable state; after
\* mark_files(L) the marked set is exactly the short names of the files of L plus the
\* sentinel, whatever was marked before (the call replaces, it does not add); mark_files
\* leaves files() and the dependency graph as they are.
C12_MarkFilesReplaces ==
    /\ [](_UNDEFINED_FILE \in marked_files)
    /\ [][\A F \in SUBSET Files :
              MarkFilesCall(SeqOf({FilePath(f) : f \in F})) =>
                  /\ marked_files' = F \cup {_UNDEFINED_FILE}
                  /\ graph' = graph
                  /\ vertexes(graph') = vertexes(graph)]_vars

\* C12 happens: a file that was marked when the cache was filled is no longer marked
\* after a later mark_files call with another file, which the graph does not have
C12_Witness ==
    /\ dependency_dicts[2] # None
    /\ \E f \in marked_when_cached : f \notin marked_files
    /\ \E f \in marked_files \ marked_when_cached : f \notin vertexes(graph)
    /\ vertexes(graph) # {}

\* the reports of cell hold the duality of C16
Dual(reports) ==
    \A u \in DOMAIN reports :
        /\ \A v \in DOMAIN reports \ {u} :
              v \in DOMAIN reports[u].provided_dependencies
                  <=> u \in DOMAIN reports[v].required_dependencies
        /\ provided_dependencies_count(reports[u])
               = Cardinality({v \in DOMAIN reports :
                                  u \in DOMAIN reports[v].required_dependencies})

\* C16: within one cached variant of all_dependencies (one value of
\* include_marked_files), for all distinct files u and v with reports v is among the
\* provided dependencies of u exactly when u is among the required dependencies of v,
\* and provided_dependencies_count of u is the number of files whose required
\* dependencies hold u.
C16_RequiredProvidedDual ==
    \A include_marked_files \in BOOLEAN :
        dependency_dicts[dict_index(include_marked_files)] # None
            => Dual(cell(dependency_dicts, include_marked_files))

\* C16 happens: both variants are cached; in the one without marked files a file is
\* provided to another and not the other way round, and in the one with them the
\* undefined sentinel has a provider
C16_Witness ==
    /\ dependency_dicts[1] # None
    /\ dependency_dicts[2] # None
    /\ \E u, v \in DOMAIN cell(dependency_dicts, FALSE) :
          /\ v \in DOMAIN cell(dependency_dicts, FALSE)[u].provided_dependencies
          /\ u \notin DOMAIN cell(dependency_dicts, FALSE)[v].provided_dependencies
    /\ _UNDEFINED_FILE \in DOMAIN cell(dependency_dicts, TRUE)
    /\ provided_dependencies_count(cell(dependency_dicts, TRUE)[_UNDEFINED_FILE]) >= 1

\* C16 happens also with two files that are each among the other's provided
\* dependencies
C16_WitnessCycle ==
    /\ dependency_dicts[1] # None
    /\ \E u, v \in DOMAIN cell(dependency_dicts, TRUE) :
          /\ u # v
          /\ v \in DOMAIN cell(dependency_dicts, TRUE)[u].provided_dependencies
          /\ u \in DOMAIN cell(dependency_dicts, TRUE)[v].provided_dependencies

----------------------------------------------------------------------------
(* Claims about dump and dump_subgraph, under SpecDump *)

\* C13: dump on an empty dependency graph, and dump_subgraph with a vertex set that
\* selects no vertex of the graph, fail with the assertion and leave every file as it
\* was (no output file is opened or written); on a graph or subgraph that is not empty
\* the call does not fail, and the output file is written.
C13_EmptyDumpFails ==
    [][/\ op'.name = "dump" =>
              IF vertexes(graph) = {}
              THEN returned' = AssertionError /\ written' = written
              ELSE returned' = None /\ DOMAIN written' = Filenames /\ written' # written
       /\ op'.name = "dump_subgraph" =>
              IF op'.sub_vertexes \cap vertexes(graph) = {}
              THEN returned' = AssertionError /\ written' = written
              ELSE returned' = None /\ DOMAIN written' = Filenames /\ written' # written]_vars

\* C13 happens: dump_subgraph has failed for vertexes the graph does not have, and the
\* file that had the name of the output file is as it was
C13_Witness ==
    /\ op.name = "dump_subgraph"
    /\ returned = AssertionError
    /\ op.sub_vertexes # {}
    /\ vertexes(graph) # {}
    /\ \E filename \in DOMAIN written : written[filename] = <<"digraph old {\n", "}\n">>

\* C13 happens also with a dump of the empty graph: it has failed and there is no file
C13_WitnessEmptyGraph ==
    /\ op.name = "dump"
    /\ vertexes(graph) = {}
    /\ returned = AssertionError
    /\ written = EmptyDict

\* C13 happens also with a dump_subgraph that has written a part of the graph
C13_WitnessWritten ==
    /\ op.name = "dump_subgraph"
    /\ returned = None
    /\ op.sub_vertexes \cap vertexes(graph) # vertexes(graph)
    /\ \E filename \in DOMAIN written : Len(written[filename]) > 2

----------------------------------------------------------------------------
(* Claims about the construction, under SpecConstruction *)

\* the places in the link file list of the files that define symbol
Definers(symbol) ==
    {i \in 1..Len(link_file_list) :
         \E k \in 1..Len(nm[link_file_list[i]].defined) :
             nm[link_file_list[i]].defined[k] = symbol}

\* the places in the link file list of the files that leave symbol undefined
Users(symbol) ==
    {i \in 1..Len(link_file_list) :
         \E k \in 1..Len(nm[link_file_list[i]].undefined) :
             nm[link_file_list[i]].undefined[k] = symbol}

\* the vertex an undefined symbol leads to: the short name of the last file of the list
\* that defines it, the undefined sentinel where no file does
Resolved(symbol) ==
    IF Definers(symbol) = {} THEN _UNDEFINED_FILE
    ELSE short_filename(link_file_list[CHOOSE i \in Definers(symbol) :
                                           \A j \in Definers(symbol) : j <= i])

ShortNames == {short_filename(link_file_list[i]) : i \in 1..Len(link_file_list)}

\* the readable names of the undefined symbols of the files named u that lead to v
ExpectedLabels(u, v) ==
    {readable_symbol_name(symbol) :
         symbol \in {t \in Symbols :
                         /\ Resolved(t) = v
                         /\ \E i \in Users(t) : short_filename(link_file_list[i]) = u}}

\* C11: the constructed graph has the short name of every input file as a vertex (also
\* of a file without undefined symbols); for every file f and undefined symbol s of f it
\* has the edge short(f) -> short(d) carrying the readable name of s, d being the last
\* file of the list that defines s, whether before or after f, or the edge short(f) ->
\* undefined sentinel where no file defines s; it has no other edge, label or vertex.
C11_ConstructedGraph ==
    op.name = "__init__" =>
        /\ ShortNames \subseteq vertexes(graph)
        /\ vertexes(graph) \subseteq ShortNames \cup {_UNDEFINED_FILE}
        /\ \A u \in vertexes(graph) :
              /\ DOMAIN graph[u] =
                     {v \in ShortNames \cup {_UNDEFINED_FILE} : ExpectedLabels(u, v) # {}}
              /\ \A v \in DOMAIN graph[u] : graph[u][v] = ExpectedLabels(u, v)

\* C11 happens: two files with different short names define a symbol that the first of
\* them leaves undefined, so the edge leads to the later one, and another of its
\* undefined symbols has no definer
C11_Witness ==
    /\ op.name = "__init__"
    /\ \E symbol \in Symbols :
          /\ Cardinality({short_filename(link_file_list[i]) : i \in Definers(symbol)}) = 2
          /\ \E i \in Users(symbol) :
                /\ \E j \in Definers(symbol) : i < j
                /\ Resolved(symbol) \in DOMAIN graph[short_filename(link_file_list[i])]
                /\ Resolved(symbol) # short_filename(link_file_list[i])
                /\ _UNDEFINED_FILE \in DOMAIN graph[short_filename(link_file_list[i])]

\* C11 happens also where the definer comes before the file with the undefined symbol
C11_WitnessBefore ==
    /\ op.name = "__init__"
    /\ \E symbol \in Symbols : \E i \in Users(symbol) :
          /\ Definers(symbol) # {}
          /\ \A j \in Definers(symbol) : j < i
          /\ Resolved(symbol) \in DOMAIN graph[short_filename(link_file_list[i])]

\* C11 happens also with a file that has no undefined symbol and no edge into it
C11_WitnessIsolated ==
    /\ op.name = "__init__"
    /\ \E i \in 1..Len(link_file_list) :
          LET short_file == short_filename(link_file_list[i])
          IN /\ nm[link_file_list[i]].undefined = <<>>
             /\ short_file \in vertexes(graph)
             /\ DOMAIN graph[short_file] = {}
             /\ \A u \in vertexes(graph) : short_file \notin DOMAIN graph[u]
             /\ Cardinality(vertexes(graph)) >= 3

\* C11 happens also with one edge that carries one readable name for two symbols
C11_WitnessSameName ==
    /\ op.name = "__init__"
    /\ \E u \in vertexes(graph) : \E v \in DOMAIN graph[u] :
          /\ Cardinality(graph[u][v]) = 1
          /\ Cardinality({t \in Symbols : Resolved(t) = v
                              /\ \E i \in Users(t) : short_filename(link_file_list[i]) = u}) = 2

====
